---- MODULE Spec2Model ----
(***************************************************************************)
(* GeoportalTH_Imagery_Download: a model of geothimagery/GeoportalTH_main  *)
(* (and of the legacy GeoportalTH_Imagery_Download/GeoportalTH_main where  *)
(* a property names it).                                                   *)
(*                                                                         *)
(* Python strings that the program parses (tile names) are sequences of    *)
(* one-character strings; strings it only concatenates and compares        *)
(* (labels, paths, URLs) are TLA+ strings joined with \o.                  *)
(***************************************************************************)
EXTENDS Integers, Sequences, FiniteSets, TLC

VARIABLES
    pc,             \* the function about to run, or "idle" / "done" / "failed"
    fn,             \* the function that returned or raised last ("" if none)
    caller,         \* "geoportalth_execute" or "user" (a direct call)
    year, data_choice, dem_format, keep_files, epsg, shapefile, id_file,
    request, dem_year,          \* results of dem_year_func
    tiles,                      \* the tile list (one list object, shared)
    tiles_in,                   \* the tile list as it was passed to op_download
    idlist,                     \* op_download's idlist
    zip_list, unzip_list,       \* results of dem_download / op_download
    intermediates,              \* result of merging_tiles
    delete_list,                \* result of determine_files_to_delete
    error,                      \* the exception that ended the call, or "none"
    disk,                       \* the files that exist
    disk_in,                    \* the files that existed when the call started
    gets,                       \* the GETs the last call issued
    fetched,                    \* archive path -> GETs written to it since it
                                \* was last removed
    removed,                    \* the paths os.remove was ever applied to
    warned,                     \* the paths delete_residual_files warned about
    runs,                       \* the download calls completed so far
    \* op_tile_finder
    n_jobs, start, last_id, safe_step,  \* arguments (last_id is `end`)
    first_start,                \* the start of the user's call
    batch,                      \* `current`, the first index of the batch
    next_index,                 \* the next index Parallel hands to a worker
    running,                    \* the indices whose request is in flight
    names_list,                 \* index -> answer, of the requests completed
    entry,                      \* the entries of names_list handled so far
    id_lines,                   \* the lines of the lookup file (<<>>: no file)
    requested,                  \* ID -> requests sent for it, over all calls
    interrupted,                \* an interruption has happened
    \* concurrent invocations of the download step on one archive
    rpc,                        \* invocation -> its position in the step
    rhit,                       \* invocation -> it found the archive present
    rgets,                      \* invocation -> the GETs it issued
    rerr                        \* invocation -> the exception that ended it

inputs == <<year, data_choice, dem_format, keep_files, epsg, shapefile, id_file>>
locals == <<request, dem_year, tiles, tiles_in, idlist, zip_list, unzip_list,
            intermediates, delete_list>>
env    == <<disk, disk_in, gets, fetched, removed, warned, runs>>
finder == <<n_jobs, start, last_id, safe_step, first_start, batch, next_index,
            running, names_list, entry, id_lines, requested, interrupted>>
race   == <<rpc, rhit, rgets, rerr>>
others == <<finder, race>>
vars   == <<pc, fn, caller, error, inputs, locals, env, others>>

-----------------------------------------------------------------------------
(* Python values *)

None      == [isNone |-> TRUE,  val |-> <<>>]
Some(v)   == [isNone |-> FALSE, val |-> v]

Range(s)  == {s[i] : i \in 1..Len(s)}
In(x, s)  == \E i \in 1..Len(s) : s[i] = x

\* os.path.join of a directory and a relative name
Join(a, b) == a \o "/" \o b

-----------------------------------------------------------------------------
(* Bounds of the model *)

MinYear  == 1995
MaxYear  == 2030
Years    == MinYear..MaxYear

\* the longest tile list op_download is called with
MaxTiles == 2

\* the GET of a call at which the connection fails (0: none fails)
NetFail  == {0, 1, 2}

-----------------------------------------------------------------------------
(* dem_year_func: the vintage of a year *)

UrlBase == "https://geoportal.geoportal-th.de/hoehendaten/Uebersichten/"

Raise(e) == [error |-> e, request |-> "", dem_year |-> ""]

\* the mutant: the first range ends one year early
dem_year_func_bad(y) ==
    IF y < 2013 /\ y >= 2010
    THEN [error |-> "none", request |-> UrlBase \o "Stand_2010-2013.zip",
          dem_year |-> "2010-2013"]
    ELSE IF y <= 2019
    THEN [error |-> "none", request |-> UrlBase \o "Stand_2014-2019.zip",
          dem_year |-> "2014-2019"]
    ELSE IF y <= 2025
    THEN [error |-> "none", request |-> UrlBase \o "Stand_2020-2025.zip",
          dem_year |-> "2020-2025"]
    ELSE Raise("ValueError")

dem_year_func(y) ==
    IF y <= 2013 /\ y >= 2010
    THEN [error |-> "none", request |-> UrlBase \o "Stand_2010-2013.zip",
          dem_year |-> "2010-2013"]
    ELSE IF y <= 2019
    THEN [error |-> "none", request |-> UrlBase \o "Stand_2014-2019.zip",
          dem_year |-> "2014-2019"]
    ELSE IF y <= 2025
    THEN [error |-> "none", request |-> UrlBase \o "Stand_2020-2025.zip",
          dem_year |-> "2020-2025"]
    ELSE Raise("ValueError")

\* the legacy script's DEM_Year
DEM_Year(y) ==
    IF y <= 2013
    THEN [error |-> "none", request |-> UrlBase \o "Stand_2010-2013.zip",
          dem_year |-> "2010-2013"]
    ELSE IF y <= 2019
    THEN [error |-> "none", request |-> UrlBase \o "Stand_2014-2019.zip",
          dem_year |-> "2014-2019"]
    ELSE IF y <= 2025
    THEN [error |-> "none", request |-> UrlBase \o "Stand_2020-2025.zip",
          dem_year |-> "2020-2025"]
    ELSE Raise("ValueError")

-----------------------------------------------------------------------------
(* Python's str.split("_"), int() and str() on character sequences *)

Digits == <<"0", "1", "2", "3", "4", "5", "6", "7", "8", "9">>

DigitVal(c) == CHOOSE d \in 0..9 : Digits[d + 1] = c

RECURSIVE ParseNat(_)
ParseNat(s) ==
    IF Len(s) = 0 THEN 0
    ELSE ParseNat(SubSeq(s, 1, Len(s) - 1)) * 10 + DigitVal(s[Len(s)])

\* int("<digits>") and int("-<digits>")
int(s) == IF Head(s) = "-" THEN 0 - ParseNat(Tail(s)) ELSE ParseNat(s)

RECURSIVE NatStr(_)
NatStr(n) ==
    IF n < 10 THEN <<Digits[n + 1]>>
    ELSE NatStr(n \div 10) \o <<Digits[(n % 10) + 1]>>

\* str(n): decimal digits, "-" before a negative number
str(n) == IF n < 0 THEN <<"-">> \o NatStr(0 - n) ELSE NatStr(n)

\* tile.split("_") of a name that holds one "_": the parts before and after
split(s) ==
    LET k == CHOOSE i \in 1..Len(s) :
                 s[i] = "_" /\ \A j \in 1..(i - 1) : s[j] # "_"
    IN  <<SubSeq(s, 1, k - 1), SubSeq(s, k + 1, Len(s))>>

\* a character sequence as a string, for concatenation into paths and URLs
RECURSIVE Text(_)
Text(s) == IF s = <<>> THEN "" ELSE Head(s) \o Text(Tail(s))

\* "<x>_<y>"
TileName(x, y) == str(x) \o <<"_">> \o str(y)

-----------------------------------------------------------------------------
(* op_download, lines 429-455: the correction of the tile names of the     *)
(* years up to 2018, when four tiles share the ID of their lower left one  *)

\* x & 1 of a Python int (two's complement: 1 for every odd x, negative too)
Bit0(x) == x % 2

\* list.remove(x): the list without the first x; ValueError if there is none
remove(l, x) ==
    IF ~In(x, l) THEN [error |-> "ValueError", list |-> l]
    ELSE LET k == CHOOSE i \in 1..Len(l) :
                      l[i] = x /\ \A j \in 1..(i - 1) : l[j] # x
         IN  [error |-> "none",
              list |-> SubSeq(l, 1, k - 1) \o SubSeq(l, k + 1, Len(l))]

\* the mutant: of two odd coordinates only x is corrected
new_tile_bad(tile) ==
    LET tile_x == int(split(tile)[1])
        tile_y == int(split(tile)[2])
    IN  IF Bit0(tile_x) + Bit0(tile_y) = 1
        THEN IF Bit0(tile_x) = 1
             THEN str(tile_x - 1) \o <<"_">> \o str(tile_y)
             ELSE str(tile_x) \o <<"_">> \o str(tile_y - 1)
        ELSE IF Bit0(tile_x) + Bit0(tile_y) = 2
        THEN str(tile_x - 1) \o <<"_">> \o str(tile_y)
        ELSE tile

\* lines 438-448: the corrected name of a tile, or the tile itself when both
\* coordinates are even (the loop's continue)
new_tile(tile) ==
    LET tile_x == int(split(tile)[1])
        tile_y == int(split(tile)[2])
    IN  IF Bit0(tile_x) + Bit0(tile_y) = 1
        THEN IF Bit0(tile_x) = 1
             THEN str(tile_x - 1) \o <<"_">> \o str(tile_y)
             ELSE str(tile_x) \o <<"_">> \o str(tile_y - 1)
        ELSE IF Bit0(tile_x) + Bit0(tile_y) = 2
        THEN str(tile_x - 1) \o <<"_">> \o str(tile_y - 1)
        ELSE tile

\* the loop's continue: both coordinates even
IsEven(tile) ==
    Bit0(int(split(tile)[1])) + Bit0(int(split(tile)[2])) = 0

\* the mutant: the corrected name is appended and the odd one stays
correct_one_bad(l, tile) ==
    IF IsEven(tile) THEN [error |-> "none", list |-> l]
    ELSE IF ~In(new_tile(tile), l)
         THEN [error |-> "none", list |-> Append(l, new_tile(tile))]
         ELSE [error |-> "none", list |-> l]

\* lines 450-455: one pass of the loop body over tiles_check[i], on the list
\* `l` that the passes before it left
correct_one(l, tile) ==
    IF IsEven(tile) THEN [error |-> "none", list |-> l]
    ELSE LET r == remove(l, tile) IN
         IF r.error # "none" THEN r
         ELSE IF ~In(new_tile(tile), r.list)
              THEN [error |-> "none", list |-> Append(r.list, new_tile(tile))]
              ELSE r

RECURSIVE correct_from(_, _, _)
correct_from(tiles_check, i, l) ==
    IF i > Len(tiles_check) THEN [error |-> "none", list |-> l]
    ELSE LET r == correct_one(l, tiles_check[i]) IN
         IF r.error # "none" THEN r
         ELSE correct_from(tiles_check, i + 1, r.list)

\* lines 429-455
correct(l, y) ==
    IF y <= 2018 THEN correct_from(l, 1, l)
    ELSE [error |-> "none", list |-> l]

-----------------------------------------------------------------------------
(* op_download, lines 415-423 and 457-464: the IDs of the tiles *)

\* a row of the lookup file (id,year,tilename)
Row(i, y, x1, x2) == [id |-> i, year |-> y, tilename |-> TileName(x1, x2)]

\* lookup[lookup["year"] == year]
filter_year(lookup, y) ==
    LET Test(row) == row.year = y IN SelectSeq(lookup, Test)

\* lookup[lookup["tilename"] == tile]
filter_tile(lookup, tile) ==
    LET Test(row) == row.tilename = tile IN SelectSeq(lookup, Test)

\* the mutant: the last matching row
id_match_bad(tile_match) == tile_match[Len(tile_match)].id

\* tile_match.values[0][0]
id_match(tile_match) == tile_match[1].id

\* the mutant: a tile without a row is passed over
RECURSIVE resolve_from_bad(_, _, _, _)
resolve_from_bad(lookup, l, i, ids) ==
    IF i > Len(l) THEN [error |-> "none", idlist |-> ids]
    ELSE LET tile_match == filter_tile(lookup, l[i]) IN
         IF Len(tile_match) < 1
         THEN resolve_from_bad(lookup, l, i + 1, ids)
         ELSE resolve_from_bad(lookup, l, i + 1,
                               Append(ids, id_match(tile_match)))

RECURSIVE resolve_from(_, _, _, _)
resolve_from(lookup, l, i, ids) ==
    IF i > Len(l) THEN [error |-> "none", idlist |-> ids]
    ELSE LET tile_match == filter_tile(lookup, l[i]) IN
         IF Len(tile_match) < 1
         THEN [error |-> "MissingAerialCoverage", idlist |-> ids]
         ELSE resolve_from(lookup, l, i + 1, Append(ids, id_match(tile_match)))

resolve(lookup, l, y) == resolve_from(filter_year(lookup, y), l, 1, <<>>)

-----------------------------------------------------------------------------
(* Files. disk maps each existing file to what it holds: an archive holds  *)
(* its member names, any other file is no archive.                         *)

root     == "root"
data_dir == Join(root, "data")      \* line 83
dem_dir  == Join(data_dir, "dem")   \* line 85
op_dir   == Join(data_dir, "op")    \* line 87

\* a member of an archive: a file, or a directory entry
Member(n, d) == [name |-> n, dir |-> d]

Archive(members) == [ok |-> TRUE, names |-> members]
NotZip           == [ok |-> FALSE, names |-> <<>>]

exists(d, path) == path \in DOMAIN d

\* open(path, "wb").write(content)
write(d, path, content) == (path :> content) @@ d

\* os.remove(path)
os_remove(d, path) == [q \in (DOMAIN d) \ {path} |-> d[q]]

\* zip_ref.extractall(dir): every file member is written below dir
extractall(d, members, dir) ==
    LET files == {Join(dir, members[i].name) :
                     i \in {j \in 1..Len(members) : ~members[j].dir}}
    IN  [q \in files |-> NotZip] @@ d

\* [os.path.join(dir, unzip_item) for unzip_item in zip_ref.namelist()]
joined(members, dir) == [i \in 1..Len(members) |-> Join(dir, members[i].name)]

-----------------------------------------------------------------------------
(* The server: what a GET of a URL answers. It knows the three overview    *)
(* archives, the DEM archives of its tiles and the OP archives of its IDs; *)
(* any other URL gets an error page, which is no archive.                  *)

Vintages   == {"2010-2013", "2014-2019", "2020-2025"}
DemFormats == {"dgm", "dom"}

\* the cells of the server's grid, in the order of its grid layer, and
\* their tiles "<x>_<y>"
GridCells  == <<<<0, 0>>, <<1, 0>>, <<2, 0>>>>
GridTiles  == {TileName(GridCells[i][1], GridCells[i][2]) :
                  i \in 1..Len(GridCells)}

\* the IDs the server has an orthophoto archive for
ServerOpIds == {11, 12, 13, 14}

DemHost == "https://geoportal.geoportal-th.de/hoehendaten/"
OpHost  == "https://geoportal.geoportal-th.de/gaialight-th/_apps/dladownload/download.php?type=op&id="

\* dem_format.upper()
upper(f) == IF f = "dgm" THEN "DGM" ELSE IF f = "dom" THEN "DOM" ELSE f

\* lines 335-338
indicator_number(v) == IF v = "2010-2013" THEN "2_" ELSE "1_"

\* lines 342-345
dem_request(f, tile, v) ==
    DemHost \o upper(f) \o "/" \o f \o "_" \o v \o "/"
        \o f \o indicator_number(v) \o Text(tile) \o "_1_th_" \o v \o ".zip"

\* lines 492-494
op_request(tile_id) == OpHost \o Text(str(tile_id))

GridShp(v) ==
    IF v = "2010-2013"
    THEN "DGM2_2010-2013_Erfass-lt-Meta_UTM32-UTM_2014-12-10.shp"
    ELSE IF v = "2014-2019"
    THEN "DGM1_2014-2019_Erfass-lt-Meta_UTM_2020-04-20--17127.shp"
    ELSE "Laser_2020-2025_Erfass-lt-Meta_UTM_2022-08--17127.shp"

\* the overview archive of 2020-2025 holds a folder, the others hold files
GridArchive(v) ==
    IF v = "2020-2025"
    THEN Archive(<<Member("Stand_2020-2025/", TRUE),
                   Member(Join("Stand_2020-2025", GridShp(v)), FALSE)>>)
    ELSE Archive(<<Member(GridShp(v), FALSE)>>)

DemArchive(f, tile, v) ==
    LET base == f \o indicator_number(v) \o Text(tile) \o "_1_th_" \o v
    IN  Archive(<<Member(base \o ".xyz", FALSE), Member(base \o ".meta", FALSE)>>)

OpArchive(tile_id) ==
    LET base == "dop_" \o Text(str(tile_id))
    IN  Archive(<<Member(base \o ".tif", FALSE), Member(base \o ".tfw", FALSE)>>)

Server(url) ==
    LET grids == {v \in Vintages : UrlBase \o "Stand_" \o v \o ".zip" = url}
        dems  == {k \in DemFormats \X GridTiles \X Vintages :
                     dem_request(k[1], k[2], k[3]) = url}
        ops   == {i \in ServerOpIds : op_request(i) = url}
    IN  IF grids # {} THEN GridArchive(CHOOSE v \in grids : TRUE)
        ELSE IF dems # {}
        THEN LET k == CHOOSE k \in dems : TRUE IN DemArchive(k[1], k[2], k[3])
        ELSE IF ops # {} THEN OpArchive(CHOOSE i \in ops : TRUE)
        ELSE NotZip

-----------------------------------------------------------------------------
(* The download loops of dem_download and op_download. A pass works on     *)
(* st = [disk, fetched, gets, zips, unzips, error]; gets counts the GETs   *)
(* of this call and failAt is the GET at which the connection fails        *)
(* (0: at none).                                                           *)

Count(f, path) == IF path \in DOMAIN f THEN f[path] ELSE 0

\* lines 362-367, 377-381 (484-489, 500-504): open the archive, extract it,
\* list its members
unzip(st, current, dir) ==
    IF ~st.disk[current].ok THEN [st EXCEPT !.error = "BadZipFile"]
    ELSE [st EXCEPT !.disk = extractall(st.disk, st.disk[current].names, dir),
                    !.unzips = st.unzips \o joined(st.disk[current].names, dir)]

\* lines 370-374 (492-498): GET the URL, write the answer to the path
get_and_write(st, current, url, failAt) ==
    IF st.gets + 1 = failAt
    THEN [st EXCEPT !.gets = st.gets + 1, !.error = "ConnectionError"]
    ELSE [st EXCEPT !.gets = st.gets + 1,
                    !.disk = write(st.disk, current, Server(url)),
                    !.fetched = (current :> (Count(st.fetched, current) + 1))
                                    @@ st.fetched]

\* the mutant: the archive is fetched whether it is there or not
fetch_bad(st, current, url, dir, failAt) ==
    LET listed == [st EXCEPT !.zips = Append(st.zips, current)]
        got == get_and_write(listed, current, url, failAt)
    IN  IF got.error # "none" THEN got ELSE unzip(got, current, dir)

\* the mutant: an archive that is there is listed and not unpacked
fetch_skip(st, current, url, dir, failAt) ==
    LET listed == [st EXCEPT !.zips = Append(st.zips, current)] IN
    IF exists(listed.disk, current) THEN listed
    ELSE LET got == get_and_write(listed, current, url, failAt) IN
         IF got.error # "none" THEN got ELSE unzip(got, current, dir)

\* lines 358-381 (480-504): list the archive, unzip it if it is there,
\* fetch and unzip it if not
fetch(st, current, url, dir, failAt) ==
    LET listed == [st EXCEPT !.zips = Append(st.zips, current)] IN
    IF exists(listed.disk, current) THEN unzip(listed, current, dir)
    ELSE LET got == get_and_write(listed, current, url, failAt) IN
         IF got.error # "none" THEN got ELSE unzip(got, current, dir)

\* lines 478: the path of the archive of an ID
current_op(tile_id) == Join(op_dir, Text(str(tile_id)) \o ".zip")

RECURSIVE op_fetch_from(_, _, _, _)
op_fetch_from(st, ids, i, failAt) ==
    IF i > Len(ids) \/ st.error # "none" THEN st
    ELSE op_fetch_from(fetch(st, current_op(ids[i]), op_request(ids[i]),
                             op_dir, failAt),
                       ids, i + 1, failAt)

Start(d, f) ==
    [disk |-> d, fetched |-> f, gets |-> 0, zips |-> <<>>, unzips |-> <<>>,
     error |-> "none"]

\* op_download, lines 414-506: the corrected list, the IDs, the lists of
\* paths, the files and the exception, if any
op_download(d, f, l, y, lookup, failAt) ==
    LET c == correct(l, y) IN
    IF c.error # "none"
    THEN [Start(d, f) EXCEPT !.error = c.error]
             @@ [tiles |-> c.list, idlist |-> <<>>]
    ELSE LET r == resolve(lookup, c.list, y) IN
         IF r.error # "none"
         THEN [Start(d, f) EXCEPT !.error = r.error]
                  @@ [tiles |-> c.list, idlist |-> r.idlist]
         ELSE op_fetch_from(Start(d, f), r.idlist, 1, failAt)
                  @@ [tiles |-> c.list, idlist |-> r.idlist]

-----------------------------------------------------------------------------
(* tile_grid_download, lines 201-226 *)

target_dir(v) == Join(data_dir, "Stand_" \o v)              \* line 202
grid_file(v)  == Join(target_dir(v), "Stand_" \o v \o ".zip") \* line 208

\* lines 219-226: the members of 2020-2025 but the first go below data_dir,
\* the members of the other archives below target_dir
unzip_grid(st, v) ==
    LET current == grid_file(v) IN
    IF ~st.disk[current].ok THEN [st EXCEPT !.error = "BadZipFile"]
    ELSE IF v = "2020-2025"
    THEN [st EXCEPT !.disk = extractall(st.disk, Tail(st.disk[current].names),
                                        data_dir)]
    ELSE [st EXCEPT !.disk = extractall(st.disk, st.disk[current].names,
                                        target_dir(v))]

tile_grid_download(d, f, v, url, failAt) ==
    IF exists(d, grid_file(v)) THEN unzip_grid(Start(d, f), v)
    ELSE LET got == get_and_write(Start(d, f), grid_file(v), url, failAt) IN
         IF got.error # "none" THEN got ELSE unzip_grid(got, v)

-----------------------------------------------------------------------------
(* intersection, lines 250-292. An area is a set of atoms, two to a grid   *)
(* cell; a polygon of the AOI is an area, and two areas intersect when     *)
(* they share an atom.                                                     *)

CellArea(c)  == {<<c[1], c[2], 1>>, <<c[1], c[2], 2>>}
Outside      == {<<9, 9, 1>>}

\* the grid layer as the overview archive holds it: the cells in file order,
\* each with its attributes (DGM_1X1 has the zone "32" before the name)
Cell(c) ==
    [NAME |-> TileName(c[1], c[2]),
     DGM_1X1 |-> <<"3", "2">> \o TileName(c[1], c[2]),
     geometry |-> CellArea(c)]

grid == [i \in 1..Len(GridCells) |-> Cell(GridCells[i])]

\* lines 251-262
grid_path(v) ==
    IF v = "2020-2025" THEN Join(Join(data_dir, "Stand_2020-2025"), GridShp(v))
    ELSE Join(target_dir(v), GridShp(v))

\* gpd.overlay(polygon, grid, how="intersection"): one row for each polygon
\* and cell that share area, by polygon and then by cell
RECURSIVE overlay_from(_, _, _, _)
overlay_from(polygon, g, i, j) ==
    IF i > Len(polygon) THEN <<>>
    ELSE IF j > Len(g) THEN overlay_from(polygon, g, i + 1, 1)
    ELSE (IF polygon[i] \cap g[j].geometry # {} THEN <<g[j]>> ELSE <<>>)
             \o overlay_from(polygon, g, i, j + 1)

overlay(polygon, g) == overlay_from(polygon, g, 1, 1)

\* tile[2:end]
slice2(tile, end) ==
    SubSeq(tile, 3, IF end < Len(tile) THEN end ELSE Len(tile))

\* the mutant: an empty overlay is returned as an empty list
intersection_bad(d, v, polygon) ==
    IF ~exists(d, grid_path(v))
    THEN [error |-> "DriverError", tiles |-> <<>>]
    ELSE LET intersecting == overlay(polygon, grid) IN
         [error |-> "none",
          tiles |-> [k \in 1..Len(intersecting) |-> intersecting[k].NAME]]

intersection(d, v, polygon) ==
    IF ~exists(d, grid_path(v))
    THEN [error |-> "DriverError", tiles |-> <<>>]
    ELSE LET intersecting == overlay(polygon, grid) IN
         IF Len(intersecting) = 0
         THEN [error |-> "AreaOutOfBounds", tiles |-> <<>>]
         ELSE IF v = "2010-2013"
         THEN [error |-> "none",
               tiles |-> [k \in 1..Len(intersecting) |->
                             slice2(intersecting[k].DGM_1X1,
                                    Len(intersecting[1].DGM_1X1))]]
         ELSE [error |-> "none",
               tiles |-> [k \in 1..Len(intersecting) |-> intersecting[k].NAME]]

-----------------------------------------------------------------------------
(* dem_download, lines 322-383 *)

\* the mutant: the archive is named after the tile alone
current_dem_bad(tile, f, v) == Join(dem_dir, Text(tile) \o ".zip")

\* lines 354-355
current_dem(tile, f, v) ==
    Join(dem_dir, Text(tile) \o "_" \o f \o v \o ".zip")

\* lines 341-345 and 370: request is bound for dgm and dom only, and the GET
\* of a name that is not bound raises
dem_fetch(st, tile, f, v, failAt) ==
    LET current == current_dem(tile, f, v)
        listed  == [st EXCEPT !.zips = Append(st.zips, current)]
    IN  IF exists(st.disk, current) \/ f \in {"dgm", "dom"}
        THEN fetch(st, current, dem_request(f, tile, v), dem_dir, failAt)
        ELSE [listed EXCEPT !.error = "UnboundLocalError"]

RECURSIVE dem_fetch_from(_, _, _, _, _, _)
dem_fetch_from(st, l, i, f, v, failAt) ==
    IF i > Len(l) \/ st.error # "none" THEN st
    ELSE dem_fetch_from(dem_fetch(st, l[i], f, v, failAt),
                        l, i + 1, f, v, failAt)

dem_download(d, fe, l, f, v, failAt) ==
    dem_fetch_from(Start(d, fe), l, 1, f, v, failAt)

-----------------------------------------------------------------------------
(* merging_tiles, lines 537-562, and clip_rasters, line 580 *)

\* the names, less their extension, of the files the archives hold
Stems ==
    {Join(dem_dir, k[1] \o indicator_number(k[3]) \o Text(k[2]) \o "_1_th_"
                       \o k[3]) : k \in DemFormats \X GridTiles \X Vintages}
        \cup {Join(op_dir, "dop_" \o Text(str(i))) : i \in ServerOpIds}

\* file.endswith(("tfw", "meta"))
endswith_meta(file) ==
    \E stem \in Stems : file \in {stem \o ".tfw", stem \o ".meta"}

out_name == "merged"    \* line 22

merging_tiles(d, l, tiles_dir, e) ==
    LET NotMeta(file) == ~endswith_meta(file)
        rasters == SelectSeq(l, NotMeta)
        vrt == Join(tiles_dir, out_name \o ".vrt")
        tif == Join(tiles_dir, out_name \o ".tif")
    IN  IF e # "EPSG: 25832"
        THEN [error |-> "FunctionalityNotImplemented", disk |-> d,
              intermediates |-> <<>>]
        ELSE IF Len(rasters) = 0
        THEN [error |-> "IndexError", disk |-> d, intermediates |-> <<>>]
        ELSE IF ~exists(d, rasters[1])
        THEN [error |-> "AttributeError", disk |-> d, intermediates |-> <<>>]
        ELSE [error |-> "none",
              disk |-> write(write(d, vrt, NotZip), tif, NotZip),
              intermediates |-> <<vrt, tif>>]

\* gdal.Warp(outp, inp, ...) writes outp when it can open inp
clip_rasters(d, inp, outp) ==
    IF exists(d, inp) THEN write(d, outp, NotZip) ELSE d

\* lines 110-112 and 133-134
clip_inp(tiles_dir) == Join(tiles_dir, out_name \o ".tif")
clip_outp(choice, f) ==
    IF choice \in {"dem", "both"}
    THEN Join(dem_dir, out_name \o "_" \o f \o "_clip.tif")
    ELSE Join(op_dir, out_name \o "OP_clip.tif")

-----------------------------------------------------------------------------
(* determine_files_to_delete, lines 608-629, and delete_residual_files,    *)
(* lines 645-669. A Python value that is a path or a list is a node.       *)

PathNode(path)  == [tag |-> "str", path |-> path, items |-> <<>>]
ListNode(items) == [tag |-> "list", path |-> "", items |-> items]
PathList(l)     == ListNode([i \in 1..Len(l) |-> PathNode(l[i])])

\* the mutant: the lists of the kept categories are the ones deleted
determine_files_to_delete_bad(zl, ul, im, keep) ==
    IF keep.isNone THEN [error |-> "TypeError", delete_list |-> <<>>]
    ELSE IF In("all", keep.val) THEN [error |-> "none", delete_list |-> <<>>]
    ELSE [error |-> "none",
          delete_list |->
              (IF In("zip", keep.val) THEN <<PathList(zl)>> ELSE <<>>)
           \o (IF In("unzipped", keep.val) THEN <<PathList(ul)>> ELSE <<>>)
           \o (IF In("intermediate", keep.val) THEN <<PathList(im)>> ELSE <<>>)]

\* line 612 raises for keep_files = None: `"all" in None` is a TypeError,
\* and lines 616-619 are never reached
determine_files_to_delete(zl, ul, im, keep) ==
    IF keep.isNone THEN [error |-> "TypeError", delete_list |-> <<>>]
    ELSE IF In("all", keep.val) THEN [error |-> "none", delete_list |-> <<>>]
    ELSE [error |-> "none",
          delete_list |->
              (IF ~In("zip", keep.val) THEN <<PathList(zl)>> ELSE <<>>)
           \o (IF ~In("unzipped", keep.val) THEN <<PathList(ul)>> ELSE <<>>)
           \o (IF ~In("intermediate", keep.val) THEN <<PathList(im)>> ELSE <<>>)]

Deleting(d, r, w) == [disk |-> d, removed |-> r, warned |-> w, error |-> "none"]

\* the mutant: os.remove without the isfile test
delete_path_bad(st, path) ==
    IF exists(st.disk, path)
    THEN [st EXCEPT !.disk = os_remove(st.disk, path),
                    !.removed = st.removed \cup {path}]
    ELSE [st EXCEPT !.error = "FileNotFoundError"]

\* lines 648-656: a path is removed if it is a file, and warned about if not
delete_path(st, path) ==
    IF exists(st.disk, path)
    THEN [st EXCEPT !.disk = os_remove(st.disk, path),
                    !.removed = st.removed \cup {path}]
    ELSE [st EXCEPT !.warned = st.warned \cup {path}]

\* delete_residual_files(*lists) on st = [disk, removed, warned, error];
\* lists[0] of a call without arguments raises IndexError
RECURSIVE delete_residual_files(_, _)
RECURSIVE delete_each(_, _, _)
delete_residual_files(st, lists) ==
    IF Len(lists) = 0 THEN [st EXCEPT !.error = "IndexError"]
    ELSE IF Len(lists) < 2
    THEN IF lists[1].tag = "str" THEN delete_path(st, lists[1].path)
         ELSE delete_each(st, lists[1].items, 1)
    ELSE delete_each(st, lists, 1)

delete_each(st, items, i) ==
    IF i > Len(items) \/ st.error # "none" THEN st
    ELSE delete_each(delete_residual_files(st, <<items[i]>>), items, i + 1)

-----------------------------------------------------------------------------
(* Control: a function returns to geoportalth_execute, which goes on to    *)
(* `next`, or to the user who called it; an exception ends either.         *)

Return(next) == IF caller = "geoportalth_execute" THEN next ELSE "done"

\* the mutant: the run goes on after an exception
After_bad(e, next) == Return(next)

After(e, next) == IF e = "none" THEN Return(next) ELSE "failed"

-----------------------------------------------------------------------------
(* The state before any call *)

NoLocals ==
    /\ request = "" /\ dem_year = ""
    /\ tiles_in = <<>> /\ idlist = <<>>
    /\ zip_list = <<>> /\ unzip_list = <<>> /\ intermediates = <<>>
    /\ delete_list = <<>>
    /\ error = "none"

NoHistory ==
    /\ gets = 0 /\ fetched = <<>> /\ removed = {} /\ warned = {} /\ runs = <<>>

\* op_tile_finder is not running
NoFinder ==
    /\ n_jobs = 0 /\ start = 0 /\ last_id = 0 /\ safe_step = 0
    /\ first_start = 0 /\ batch = 0 /\ next_index = 0
    /\ running = {} /\ names_list = <<>> /\ entry = 0
    /\ id_lines = <<>> /\ requested = <<>> /\ interrupted = FALSE

\* no concurrent invocation is running
NoRace == rpc = <<>> /\ rhit = <<>> /\ rgets = <<>> /\ rerr = <<>>

-----------------------------------------------------------------------------
(* Actions: vintage selection *)

DemYearFunc ==
    /\ pc = "dem_year_func"
    /\ fn' = "dem_year_func"
    /\ LET r == dem_year_func(year) IN
        /\ request' = r.request
        /\ dem_year' = r.dem_year
        /\ error' = r.error
        /\ pc' = After(r.error, "tile_grid_download")
    /\ UNCHANGED <<caller, inputs, tiles, tiles_in, idlist, zip_list,
                   unzip_list, intermediates, delete_list, env>>
    /\ UNCHANGED others

DemYearLegacy ==
    /\ pc = "DEM_Year"
    /\ fn' = "DEM_Year"
    /\ LET r == DEM_Year(year) IN
        /\ request' = r.request
        /\ dem_year' = r.dem_year
        /\ error' = r.error
        /\ pc' = After(r.error, "tile_grid_download")
    /\ UNCHANGED <<caller, inputs, tiles, tiles_in, idlist, zip_list,
                   unzip_list, intermediates, delete_list, env>>
    /\ UNCHANGED others

\* dem_year_func (or the legacy DEM_Year) called with any year
InitVintage ==
    /\ pc \in {"dem_year_func", "DEM_Year"}
    /\ fn = ""
    /\ caller = "user"
    /\ year \in Years
    /\ data_choice = "" /\ dem_format = "" /\ keep_files = None /\ epsg = ""
    /\ shapefile = <<>> /\ id_file = <<>> /\ tiles = <<>>
    /\ NoLocals
    /\ disk = <<>> /\ disk_in = <<>>
    /\ NoHistory
    /\ NoFinder /\ NoRace

NextVintage == DemYearFunc \/ DemYearLegacy

SpecVintage == InitVintage /\ [][NextVintage]_vars

-----------------------------------------------------------------------------
(* Actions: op_download *)

\* what a download call leaves in runs: its inputs, its results and the
\* files before and after it
Run(name, args, r, before, f) ==
    [fn |-> name, args |-> args, error |-> r.error,
     zips |-> r.zips, unzips |-> r.unzips,
     got |-> {q \in DOMAIN r.fetched : r.fetched[q] > Count(f, q)},
     before |-> DOMAIN before, after |-> DOMAIN r.disk]

OpDownload ==
    /\ pc = "op_download"
    /\ fn' = "op_download"
    /\ \E failAt \in NetFail :
        \E r \in {op_download(disk, fetched, tiles, year, id_file, failAt)} :
        /\ tiles_in' = tiles
        /\ tiles' = r.tiles
        /\ idlist' = r.idlist
        /\ zip_list' = IF r.error = "none" THEN r.zips ELSE <<>>
        /\ unzip_list' = IF r.error = "none" THEN r.unzips ELSE <<>>
        /\ disk_in' = disk
        /\ disk' = r.disk
        /\ gets' = r.gets
        /\ fetched' = r.fetched
        /\ error' = r.error
        /\ runs' = Append(runs, Run("op_download", <<tiles, year, id_file>>,
                                    r, disk, fetched))
        /\ pc' = After(r.error, "merging_tiles")
    /\ UNCHANGED <<caller, inputs, request, dem_year, intermediates,
                   delete_list, removed, warned>>
    /\ UNCHANGED others

-----------------------------------------------------------------------------
(* Actions: the other stages of geoportalth_execute *)

\* the mutant: las is let through
unsupported_bad(e, f) == e # "EPSG: 25832"

\* lines 76 and 78: the configurations geoportalth_execute rejects
unsupported(e, f) == e # "EPSG: 25832" \/ f = "las"

\* lines 75-79
Execute ==
    /\ pc = "geoportalth_execute"
    /\ IF unsupported(epsg, dem_format)
       THEN /\ error' = "FunctionalityNotImplemented"
            /\ fn' = "geoportalth_execute"
            /\ pc' = "failed"
       ELSE /\ pc' = "dem_year_func"
            /\ UNCHANGED <<error, fn>>
    /\ UNCHANGED <<caller, inputs, locals, env>>
    /\ UNCHANGED others

\* line 93
TileGridDownload ==
    /\ pc = "tile_grid_download"
    /\ fn' = "tile_grid_download"
    /\ \E failAt \in NetFail :
        \E r \in {tile_grid_download(disk, fetched, dem_year, request, failAt)} :
        /\ disk_in' = disk
        /\ disk' = r.disk
        /\ gets' = r.gets
        /\ fetched' = r.fetched
        /\ error' = r.error
        /\ runs' = Append(runs, Run("tile_grid_download", <<dem_year, request>>,
                                    r, disk, fetched))
        /\ pc' = After(r.error, "intersection")
    /\ UNCHANGED <<caller, inputs, locals, removed, warned>>
    /\ UNCHANGED others

\* lines 96-100 and 125: the tiles, and the branch the run takes
Intersection ==
    /\ pc = "intersection"
    /\ fn' = "intersection"
    /\ \E r \in {intersection(disk, dem_year, shapefile)} :
        /\ tiles' = r.tiles
        /\ error' = r.error
        /\ pc' = After(r.error,
                       IF data_choice \in {"dem", "both"} THEN "dem_download"
                       ELSE IF data_choice \in {"op", "both"} THEN "op_download"
                       ELSE "done")
    /\ UNCHANGED <<caller, inputs, request, dem_year, tiles_in, idlist,
                   zip_list, unzip_list, intermediates, delete_list, env>>
    /\ UNCHANGED others

\* lines 102-103
DemDownload ==
    /\ pc = "dem_download"
    /\ fn' = "dem_download"
    /\ \E failAt \in NetFail :
        \E r \in {dem_download(disk, fetched, tiles, dem_format, dem_year,
                               failAt)} :
        /\ zip_list' = IF r.error = "none" THEN r.zips ELSE <<>>
        /\ unzip_list' = IF r.error = "none" THEN r.unzips ELSE <<>>
        /\ disk_in' = disk
        /\ disk' = r.disk
        /\ gets' = r.gets
        /\ fetched' = r.fetched
        /\ error' = r.error
        /\ runs' = Append(runs, Run("dem_download",
                                    <<tiles, dem_format, dem_year>>, r, disk,
                                    fetched))
        /\ pc' = After(r.error, "merging_tiles")
    /\ UNCHANGED <<caller, inputs, request, dem_year, tiles, tiles_in, idlist,
                   intermediates, delete_list, removed, warned>>
    /\ UNCHANGED others

\* the directory of the branch the run took
tiles_dir == IF data_choice \in {"dem", "both"} THEN dem_dir ELSE op_dir

\* lines 106-107 and 130
MergingTiles ==
    /\ pc = "merging_tiles"
    /\ fn' = "merging_tiles"
    /\ \E r \in {merging_tiles(disk, unzip_list, tiles_dir, epsg)} :
        /\ intermediates' = r.intermediates
        /\ disk_in' = disk
        /\ disk' = r.disk
        /\ error' = r.error
        /\ pc' = After(r.error, "clip_rasters")
    /\ UNCHANGED <<caller, inputs, request, dem_year, tiles, tiles_in, idlist,
                   zip_list, unzip_list, delete_list, gets, fetched, removed,
                   warned, runs>>
    /\ UNCHANGED others

\* lines 110-115 and 133-137
ClipRasters ==
    /\ pc = "clip_rasters"
    /\ fn' = "clip_rasters"
    /\ disk_in' = disk
    /\ disk' = clip_rasters(disk, clip_inp(tiles_dir),
                            clip_outp(data_choice, dem_format))
    /\ pc' = Return("determine_files_to_delete")
    /\ UNCHANGED <<caller, error, inputs, locals, gets, fetched, removed,
                   warned, runs>>
    /\ UNCHANGED others

\* lines 118-121 and 140-143
DetermineFilesToDelete ==
    /\ pc = "determine_files_to_delete"
    /\ fn' = "determine_files_to_delete"
    /\ \E r \in {determine_files_to_delete(zip_list, unzip_list, intermediates,
                                           keep_files)} :
        /\ delete_list' = r.delete_list
        /\ error' = r.error
        /\ pc' = After(r.error, "delete_residual_files")
    /\ UNCHANGED <<caller, inputs, request, dem_year, tiles, tiles_in, idlist,
                   zip_list, unzip_list, intermediates, env>>
    /\ UNCHANGED others

\* lines 122 and 144
DeleteResidualFiles ==
    /\ pc = "delete_residual_files"
    /\ fn' = "delete_residual_files"
    /\ \E r \in {delete_residual_files(Deleting(disk, removed, {}),
                                       <<ListNode(delete_list)>>)} :
        /\ disk_in' = disk
        /\ disk' = r.disk
        /\ removed' = r.removed
        /\ warned' = r.warned
        /\ fetched' = [q \in (DOMAIN fetched) \ r.removed |-> fetched[q]]
        /\ error' = r.error
        /\ pc' = After(r.error, "done")
    /\ UNCHANGED <<caller, inputs, locals, gets, runs>>
    /\ UNCHANGED others

-----------------------------------------------------------------------------
(* One run of geoportalth_execute on a fresh root directory *)

RunYears   == {2009, 2012, 2018, 2019, 2021, 2026}
Choices    == {"dem", "op", "both"}
\* the formats of the server, the one line 78 rejects, and one more that is
\* none of them
RunFormats == {"dgm", "dom", "las", "dtm"}
RunEpsgs   == {"EPSG: 25832", "EPSG: 4326"}

\* the keywords of keep_files, and every list of them (each at most once)
Keywords == <<"zip", "unzipped", "intermediate", "all">>

KeepList(S) ==
    LET f[i \in 0..Len(Keywords)] ==
            IF i = 0 THEN <<>>
            ELSE IF i \in S THEN Append(f[i - 1], Keywords[i])
            ELSE f[i - 1]
    IN  f[Len(Keywords)]

KeepFiles == {None} \cup {Some(KeepList(S)) : S \in SUBSET (1..Len(Keywords))}

\* shapefiles: a polygon inside tile 0_0; one across 0_0 and 1_0; one across
\* 1_0 and 2_0; two polygons inside 0_0; a polygon outside the grid
RunAOIs ==
    { <<{<<0, 0, 1>>}>>,
      <<{<<0, 0, 2>>, <<1, 0, 1>>}>>,
      <<{<<1, 0, 2>>, <<2, 0, 1>>}>>,
      <<{<<0, 0, 1>>}, {<<0, 0, 2>>}>>,
      <<Outside>> }

\* the lookup file of the runs: ID 15 is one the server has no archive for,
\* and 2021 has no row
RunLookup ==
    <<Row(11, 2018, 0, 0), Row(12, 2019, 0, 0), Row(13, 2019, 1, 0),
      Row(14, 2018, 2, 0), Row(15, 2012, 0, 0)>>

Init ==
    /\ pc = "geoportalth_execute"
    /\ fn = ""
    /\ caller = "geoportalth_execute"
    /\ year \in RunYears
    /\ data_choice \in Choices
    /\ dem_format \in RunFormats
    /\ keep_files \in KeepFiles
    /\ epsg \in RunEpsgs
    /\ shapefile \in RunAOIs
    /\ id_file = RunLookup
    /\ tiles = <<>>
    /\ NoLocals
    /\ disk = <<>> /\ disk_in = <<>>
    /\ NoHistory
    /\ NoFinder /\ NoRace

Next ==
    \/ Execute
    \/ DemYearFunc
    \/ TileGridDownload
    \/ Intersection
    \/ DemDownload
    \/ OpDownload
    \/ MergingTiles
    \/ ClipRasters
    \/ DetermineFilesToDelete
    \/ DeleteResidualFiles

Spec == Init /\ [][Next]_vars

-----------------------------------------------------------------------------
(* Calls of the download functions, one after the other, on one root       *)
(* directory whose files the user may delete between the calls             *)

MaxRuns == 3

CacheYears    == {2018, 2021}
CacheDemYears == {2018}
CacheOpYears  == {2018, 2019}
CacheFormats  == {"dgm"}
CacheTiles    ==
    {<<TileName(0, 0)>>, <<TileName(0, 0), TileName(1, 0)>>,
     <<TileName(0, 0), TileName(0, 0)>>}

Idle == pc \in {"idle", "done", "failed"}

Steps == Len(runs) + Cardinality(removed)

\* the user calls one of the three functions
UserCall ==
    /\ Idle
    /\ Steps < MaxRuns
    /\ caller' = "user"
    /\ error' = "none"
    /\ \/ /\ pc' = "tile_grid_download"
          /\ \E y \in CacheYears :
                /\ dem_year' = dem_year_func(y).dem_year
                /\ request' = dem_year_func(y).request
          /\ UNCHANGED <<year, dem_format, tiles>>
       \/ /\ pc' = "dem_download"
          /\ \E y \in CacheDemYears : dem_year' = dem_year_func(y).dem_year
          /\ dem_format' \in CacheFormats
          /\ tiles' \in CacheTiles
          /\ request' = ""
          /\ UNCHANGED year
       \/ /\ pc' = "op_download"
          /\ year' \in CacheOpYears
          /\ tiles' \in CacheTiles
          /\ request' = "" /\ dem_year' = ""
          /\ UNCHANGED dem_format
    /\ tiles_in' = <<>> /\ idlist' = <<>>
    /\ zip_list' = <<>> /\ unzip_list' = <<>>
    /\ UNCHANGED <<fn, data_choice, keep_files, epsg, shapefile, id_file,
                   intermediates, delete_list, env>>
    /\ UNCHANGED others

\* the user deletes a file of the root directory
UserRemove ==
    /\ Idle
    /\ Steps < MaxRuns
    /\ \E path \in DOMAIN disk :
        /\ disk' = os_remove(disk, path)
        /\ removed' = removed \cup {path}
        /\ fetched' = [q \in (DOMAIN fetched) \ {path} |-> fetched[q]]
    /\ UNCHANGED <<pc, fn, caller, error, inputs, locals, disk_in, gets,
                   warned, runs>>
    /\ UNCHANGED others

InitCache ==
    /\ pc = "idle"
    /\ fn = ""
    /\ caller = "user"
    /\ year = 0
    /\ data_choice = "" /\ dem_format = "" /\ keep_files = None /\ epsg = ""
    /\ shapefile = <<>> /\ id_file = RunLookup /\ tiles = <<>>
    /\ NoLocals
    /\ disk = <<>> /\ disk_in = <<>>
    /\ NoHistory
    /\ NoFinder /\ NoRace

NextCache ==
    \/ UserCall
    \/ UserRemove
    \/ TileGridDownload
    \/ DemDownload
    \/ OpDownload

SpecCache == InitCache /\ [][NextCache]_vars

-----------------------------------------------------------------------------
(* op_tile_finder: the strings of the answers and of the lookup file *)

\* pat occurs in s at position i
occurs(s, pat, i) ==
    i + Len(pat) - 1 <= Len(s) /\ SubSeq(s, i, i + Len(pat) - 1) = pat

\* pat in s
contains(s, pat) == \E i \in 1..Len(s) : occurs(s, pat, i)

\* s.find(pat) + 1, for a pat that occurs in s
find(s, pat) ==
    CHOOSE i \in 1..Len(s) :
        occurs(s, pat, i) /\ \A j \in 1..(i - 1) : ~occurs(s, pat, j)

\* s.split(pat)[1]: what stands between the first pat and the next
split1(s, pat) ==
    LET tail == SubSeq(s, find(s, pat) + Len(pat), Len(s)) IN
    IF contains(tail, pat) THEN SubSeq(tail, 1, find(tail, pat) - 1) ELSE tail

\* s.replace(pat, "")
RECURSIVE replace(_, _)
replace(s, pat) ==
    IF ~contains(s, pat) THEN s
    ELSE LET i == find(s, pat) IN
         SubSeq(s, 1, i - 1) \o replace(SubSeq(s, i + Len(pat), Len(s)), pat)

\* s[a:b] and s[-n:]
slice(s, a, b) == SubSeq(s, a + 1, IF b < Len(s) THEN b ELSE Len(s))
suffix(s, n)   == SubSeq(s, IF Len(s) > n THEN Len(s) - n + 1 ELSE 1, Len(s))

\* int(s) raises ValueError unless s is a number
IsInt(s) ==
    /\ Len(s) > 0
    /\ \A i \in 1..Len(s) : In(s[i], Digits) \/ (i = 1 /\ s[i] = "-" /\ Len(s) > 1)

Zip32 == <<"_", "3", "2">>
DotZip == <<".", "z", "i", "p">>
DopWord == <<"d", "o", "p">>

\* the file name the server answers a HEAD for an ID with: an orthophoto
\* with "_" before the tile name, one without, no Content-disposition
\* header at all, and a file that is no orthophoto
Filename(index) ==
    LET tile == TileName(640 + index, 5600)
        tail == <<"_", "1", "_", "t", "h", "_">> \o str(2018 + (index % 2))
                    \o DotZip
    IN  IF index % 4 = 1 THEN Some(DopWord \o Zip32 \o <<"_">> \o tile \o tail)
        ELSE IF index % 4 = 2 THEN Some(DopWord \o Zip32 \o tile \o tail)
        ELSE IF index % 4 = 3 THEN None
        ELSE Some(<<"l", "a", "s">> \o Zip32 \o <<"_">> \o tile \o tail)

\* op_tilename_finder, lines 35-45: [index, filename], or None
op_tilename_finder(index) ==
    LET text == Filename(index) IN
    IF text.isNone THEN None
    ELSE IF contains(text.val, DopWord) THEN Some(<<index, text.val>>)
    ELSE None

\* lines 137-145: the line written for an entry, as its fields
Line(e) ==
    LET y        == replace(suffix(e[2], 8), DotZip)
        subentry == split1(e[2], Zip32)
        tilename == IF Head(subentry) = "_" THEN slice(subentry, 1, 9)
                    ELSE slice(subentry, 0, 8)
    IN  <<str(e[1]), y, tilename>>

Header == <<<<"i", "d">>, <<"y", "e", "a", "r">>,
            <<"t", "i", "l", "e", "n", "a", "m", "e">>>>

\* the mutant: Parallel returns once every index was handed out
all_answered_bad(run, nxt, b, step) == nxt = b + step

\* line 129: Parallel returns the list when every call has returned
all_answered(run, nxt, b, step) == run = {} /\ nxt = b + step

-----------------------------------------------------------------------------
(* Actions: op_tilelist_creator and start_after_interruption *)

main == <<caller, inputs, locals, env, race>>

\* lines 117-128: the file with its header, and the first batch if any
CreatorEnter ==
    /\ pc = "op_tilelist_creator"
    /\ id_lines' = IF id_lines = <<>> THEN <<Header>> ELSE id_lines
    /\ batch' = start
    /\ next_index' = start
    /\ running' = {} /\ names_list' = <<>> /\ entry' = 0
    /\ IF start > last_id
       THEN pc' = "done" /\ fn' = "op_tilelist_creator"
       ELSE pc' = "Parallel" /\ fn' = fn
    /\ UNCHANGED <<error, main, n_jobs, start, last_id, safe_step, first_start,
                   requested, interrupted>>

\* lines 129-131: a free worker takes the next index and sends its request
Dispatch ==
    /\ pc = "Parallel"
    /\ Cardinality(running) < n_jobs
    /\ next_index < batch + safe_step
    /\ running' = running \cup {next_index}
    /\ requested' = (next_index :> (Count(requested, next_index) + 1))
                        @@ requested
    /\ next_index' = next_index + 1
    /\ UNCHANGED <<pc, fn, error, main, n_jobs, start, last_id, safe_step,
                   first_start, batch, names_list, entry, id_lines,
                   interrupted>>

\* lines 35-45: a request is answered and its worker returns
Answer ==
    /\ pc = "Parallel"
    /\ \E index \in running :
        /\ names_list' = (index :> op_tilename_finder(index)) @@ names_list
        /\ running' = running \ {index}
    /\ UNCHANGED <<pc, fn, error, main, n_jobs, start, last_id, safe_step,
                   first_start, batch, next_index, entry, id_lines, requested,
                   interrupted>>

\* line 129: names_list is bound, line 134: the file is opened
ParallelReturns ==
    /\ pc = "Parallel"
    /\ all_answered(running, next_index, batch, safe_step)
    /\ pc' = "write"
    /\ entry' = 0
    /\ UNCHANGED <<fn, error, main, n_jobs, start, last_id, safe_step,
                   first_start, batch, next_index, running, names_list,
                   id_lines, requested, interrupted>>

\* lines 135-145: one entry of names_list
WriteEntry ==
    /\ pc = "write"
    /\ entry < safe_step
    /\ LET e == IF batch + entry \in DOMAIN names_list
                THEN names_list[batch + entry] ELSE None
       IN  id_lines' = IF e.isNone THEN id_lines
                       ELSE Append(id_lines, Line(e.val))
    /\ entry' = entry + 1
    /\ UNCHANGED <<pc, fn, error, main, n_jobs, start, last_id, safe_step,
                   first_start, batch, next_index, running, names_list,
                   requested, interrupted>>

\* the mutant: the range leaves out the ID between two batches
range_next_bad(current, step) == current + step + 1

\* line 128: the value of range(start, end + 1, safe_step) after `current`
range_next(current, step) == current + step

\* line 128: the next batch, or the end of the range
NextBatch ==
    /\ pc = "write"
    /\ entry = safe_step
    /\ batch' = range_next(batch, safe_step)
    /\ next_index' = range_next(batch, safe_step)
    /\ names_list' = <<>>
    /\ entry' = 0
    /\ IF range_next(batch, safe_step) > last_id
       THEN pc' = "done" /\ fn' = "op_tilelist_creator"
       ELSE pc' = "Parallel" /\ fn' = fn
    /\ UNCHANGED <<error, main, n_jobs, start, last_id, safe_step, first_start,
                   running, id_lines, requested, interrupted>>

\* the run is interrupted, once: what was written stays in the file
Interrupt ==
    /\ pc \in {"op_tilelist_creator", "Parallel", "write"}
    /\ ~interrupted
    /\ interrupted' = TRUE
    /\ pc' = "start_after_interruption"
    /\ batch' = 0 /\ next_index' = 0 /\ running' = {}
    /\ names_list' = <<>> /\ entry' = 0
    /\ UNCHANGED <<fn, error, main, n_jobs, start, last_id, safe_step,
                   first_start, id_lines, requested>>

\* lines 72-81
StartAfterInterruption ==
    /\ pc = "start_after_interruption"
    /\ fn' = "start_after_interruption"
    /\ IF id_lines = <<>>
       THEN pc' = "failed" /\ error' = "FileNotFoundError" /\ start' = start
       ELSE LET field == id_lines[Len(id_lines)][1] IN
            IF ~IsInt(field)
            THEN pc' = "failed" /\ error' = "ValueError" /\ start' = start
            ELSE IF int(field) + 1 >= last_id
            THEN pc' = "done" /\ error' = error /\ start' = start
            ELSE /\ pc' = "op_tilelist_creator"
                 /\ start' = int(field) + 1
                 /\ error' = error
    /\ UNCHANGED <<main, n_jobs, last_id, safe_step, first_start, batch,
                   next_index, running, names_list, entry, id_lines, requested,
                   interrupted>>

\* the IDs, the batch sizes and the worker counts of the model
MaxId   == 6
MaxStep == 3
MaxJobs == 3

\* op_tilelist_creator called with any range, on a directory without file
InitFinder ==
    /\ pc = "op_tilelist_creator"
    /\ fn = ""
    /\ caller = "user"
    /\ year = 0
    /\ data_choice = "" /\ dem_format = "" /\ keep_files = None /\ epsg = ""
    /\ shapefile = <<>> /\ id_file = <<>> /\ tiles = <<>>
    /\ NoLocals
    /\ disk = <<>> /\ disk_in = <<>>
    /\ NoHistory
    /\ n_jobs \in 1..MaxJobs
    /\ safe_step \in 1..MaxStep
    /\ start \in 1..MaxId /\ last_id \in start..MaxId
    /\ first_start = start
    /\ batch = 0 /\ next_index = 0 /\ running = {} /\ names_list = <<>>
    /\ entry = 0 /\ id_lines = <<>> /\ requested = <<>>
    /\ interrupted = FALSE
    /\ NoRace

NextFinder ==
    \/ CreatorEnter
    \/ Dispatch
    \/ Answer
    \/ ParallelReturns
    \/ WriteEntry
    \/ NextBatch
    \/ Interrupt
    \/ StartAfterInterruption

SpecFinder == InitFinder /\ [][NextFinder]_vars

-----------------------------------------------------------------------------
(* The legacy Intersection, and calls of either on any AOI *)

\* geom.overlaps(geom2): the two share area and neither holds the other
overlaps(geom, geom2) ==
    /\ geom \cap geom2 # {}
    /\ ~(geom \subseteq geom2)
    /\ ~(geom2 \subseteq geom)

\* legacy lines 177-186: by cell and then by polygon
RECURSIVE overlaps_from(_, _, _, _)
overlaps_from(polygon, g, i, j) ==
    IF i > Len(g) THEN <<>>
    ELSE IF j > Len(polygon) THEN overlaps_from(polygon, g, i + 1, 1)
    ELSE (IF overlaps(g[i].geometry, polygon[j]) THEN <<g[i].NAME>> ELSE <<>>)
             \o overlaps_from(polygon, g, i, j + 1)

\* legacy Intersection, lines 166-187
Intersection_legacy(d, v, polygon) ==
    IF ~exists(d, grid_path(v))
    THEN [error |-> "DriverError", tiles |-> <<>>]
    ELSE [error |-> "none", tiles |-> overlaps_from(polygon, grid, 1, 1)]

IntersectionLegacy ==
    /\ pc = "Intersection"
    /\ fn' = "Intersection"
    /\ \E r \in {Intersection_legacy(disk, dem_year, shapefile)} :
        /\ tiles' = r.tiles
        /\ error' = r.error
        /\ pc' = After(r.error, "done")
    /\ UNCHANGED <<caller, inputs, request, dem_year, tiles_in, idlist,
                   zip_list, unzip_list, intermediates, delete_list, env>>
    /\ UNCHANGED others

\* the polygons of an AOI: any area over the atoms of two cells and one
\* atom outside the grid; an AOI has up to MaxPolygons of them
MaxPolygons == 2

Atoms == CellArea(GridCells[1]) \cup CellArea(GridCells[2]) \cup Outside

Polygons == (SUBSET Atoms) \ {{}}

AOIs == UNION {[1..n -> Polygons] : n \in 1..MaxPolygons}

\* the vintages whose grid layer both functions read from the same file
SharedVintages == {"2010-2013", "2014-2019"}

\* either function called by the user, the grid overview being on disk
InitIntersect ==
    /\ pc \in {"intersection", "Intersection"}
    /\ fn = ""
    /\ caller = "user"
    /\ year = 0
    /\ data_choice = "" /\ dem_format = "" /\ keep_files = None /\ epsg = ""
    /\ shapefile \in AOIs
    /\ id_file = <<>> /\ tiles = <<>>
    /\ dem_year \in SharedVintages
    /\ request = ""
    /\ tiles_in = <<>> /\ idlist = <<>>
    /\ zip_list = <<>> /\ unzip_list = <<>> /\ intermediates = <<>>
    /\ delete_list = <<>>
    /\ error = "none"
    /\ disk = tile_grid_download(<<>>, <<>>, dem_year,
                                 UrlBase \o "Stand_" \o dem_year \o ".zip",
                                 0).disk
    /\ disk_in = <<>>
    /\ NoHistory
    /\ NoFinder /\ NoRace

NextIntersect == Intersection \/ IntersectionLegacy

SpecIntersect == InitIntersect /\ [][NextIntersect]_vars

-----------------------------------------------------------------------------
(* The download step of dem_download (lines 354-381) and op_download       *)
(* (lines 478-504) for one tile, run by several invocations at once on one *)
(* directory. open(path, "wb") makes the file, empty; write and the end of *)
(* the with block make it whole. Until then it is no zip archive.          *)

MaxRacers == 2
Racers    == 1..MaxRacers

race_tile == TileName(0, 0)
race_id   == 11

race_path ==
    IF data_choice = "dem" THEN current_dem(race_tile, dem_format, dem_year)
    ELSE current_op(race_id)

race_url ==
    IF data_choice = "dem" THEN dem_request(dem_format, race_tile, dem_year)
    ELSE op_request(race_id)

race_dir == IF data_choice = "dem" THEN dem_dir ELSE op_dir

\* the mutant: the archive is fetched whether found or not
after_exists_bad(found) == "get"

\* lines 361 and 370 (483 and 492): unzip what is there, or fetch it
after_exists(found) == IF found THEN "unzip" ELSE "get"

rest == <<pc, fn, caller, error, inputs, locals, disk_in, gets, fetched,
          removed, warned, runs, finder>>

\* line 361 (483): os.path.exists(current_dem)
RaceExists ==
    \E p \in Racers :
        /\ rpc[p] = "exists"
        /\ rhit' = [rhit EXCEPT ![p] = exists(disk, race_path)]
        /\ rpc' = [rpc EXCEPT ![p] = after_exists(exists(disk, race_path))]
        /\ UNCHANGED <<rest, disk, rgets, rerr>>

\* line 370 (492): requests.get(request)
RaceGet ==
    \E p \in Racers :
        /\ rpc[p] = "get"
        /\ rgets' = [rgets EXCEPT ![p] = @ + 1]
        /\ rpc' = [rpc EXCEPT ![p] = "open"]
        /\ UNCHANGED <<rest, disk, rhit, rerr>>

\* line 373 (497): open(current_dem, "wb")
RaceOpen ==
    \E p \in Racers :
        /\ rpc[p] = "open"
        /\ disk' = write(disk, race_path, NotZip)
        /\ rpc' = [rpc EXCEPT ![p] = "write"]
        /\ UNCHANGED <<rest, rhit, rgets, rerr>>

\* line 374 (498): file.write(dem_load.content), and the file is closed
RaceWrite ==
    \E p \in Racers :
        /\ rpc[p] = "write"
        /\ disk' = write(disk, race_path, Server(race_url))
        /\ rpc' = [rpc EXCEPT ![p] = "unzip"]
        /\ UNCHANGED <<rest, rhit, rgets, rerr>>

\* lines 362-367 and 377-381 (484-489 and 500-504)
RaceUnzip ==
    \E p \in Racers :
        /\ rpc[p] = "unzip"
        /\ IF ~disk[race_path].ok
           THEN /\ rerr' = [rerr EXCEPT ![p] = "BadZipFile"]
                /\ rpc' = [rpc EXCEPT ![p] = "failed"]
                /\ disk' = disk
           ELSE /\ disk' = extractall(disk, disk[race_path].names, race_dir)
                /\ rpc' = [rpc EXCEPT ![p] = "done"]
                /\ rerr' = rerr
        /\ UNCHANGED <<rest, rhit, rgets>>

InitRace ==
    /\ pc = "idle"
    /\ fn = ""
    /\ caller = "user"
    /\ year = 2018
    /\ \/ data_choice = "dem" /\ dem_format \in DemFormats
       \/ data_choice = "op" /\ dem_format = ""
    /\ keep_files = None /\ epsg = ""
    /\ shapefile = <<>> /\ id_file = <<>> /\ tiles = <<race_tile>>
    /\ dem_year = "2014-2019"
    /\ request = ""
    /\ tiles_in = <<>> /\ idlist = <<>>
    /\ zip_list = <<>> /\ unzip_list = <<>> /\ intermediates = <<>>
    /\ delete_list = <<>>
    /\ error = "none"
    /\ disk = <<>> /\ disk_in = <<>>
    /\ NoHistory
    /\ NoFinder
    /\ rpc = [p \in Racers |-> "exists"]
    /\ rhit = [p \in Racers |-> FALSE]
    /\ rgets = [p \in Racers |-> 0]
    /\ rerr = [p \in Racers |-> "none"]

NextRace ==
    \/ RaceExists
    \/ RaceGet
    \/ RaceOpen
    \/ RaceWrite
    \/ RaceUnzip

SpecRace == InitRace /\ [][NextRace]_vars

-----------------------------------------------------------------------------
(* delete_residual_files called by the user with any arguments *)

\* a call delete_residual_files(*lists) with the arguments in delete_list
DeleteResidualFilesArgs ==
    /\ pc = "delete_residual_files(*lists)"
    /\ fn' = "delete_residual_files"
    /\ \E r \in {delete_residual_files(Deleting(disk, removed, {}),
                                       delete_list)} :
        /\ disk_in' = disk
        /\ disk' = r.disk
        /\ removed' = r.removed
        /\ warned' = r.warned
        /\ fetched' = [q \in (DOMAIN fetched) \ r.removed |-> fetched[q]]
        /\ error' = r.error
        /\ pc' = After(r.error, "done")
    /\ UNCHANGED <<caller, inputs, locals, gets, runs>>
    /\ UNCHANGED others

\* the longest list, and the most arguments
MaxItems == 2

\* two files, and the entry of a directory, which is no file
FileA == Join(dem_dir, "a.xyz")
FileB == Join(dem_dir, "b.xyz")
DirEntry == Join(dem_dir, "folder/")

DeletePaths == {FileA, FileB, DirEntry}

Tuples(S) == UNION {[1..n -> S] : n \in 0..MaxItems}

\* a path, or a list of paths
Items == {PathNode(path) : path \in DeletePaths}
             \cup {ListNode(l) : l \in Tuples({PathNode(path) : path \in DeletePaths})}

\* the function called with one list (as geoportalth_execute calls it), or
\* with the items as its arguments
InitDelete ==
    /\ pc \in {"delete_residual_files", "delete_residual_files(*lists)"}
    /\ fn = ""
    /\ caller = "user"
    /\ year = 0
    /\ data_choice = "" /\ dem_format = "" /\ keep_files = None /\ epsg = ""
    /\ shapefile = <<>> /\ id_file = <<>> /\ tiles = <<>>
    /\ request = "" /\ dem_year = ""
    /\ tiles_in = <<>> /\ idlist = <<>>
    /\ zip_list = <<>> /\ unzip_list = <<>> /\ intermediates = <<>>
    /\ delete_list \in Tuples(Items)
    /\ error = "none"
    /\ disk = [path \in {FileA, FileB} |-> NotZip]
    /\ disk_in = disk
    /\ NoHistory
    /\ NoFinder /\ NoRace

NextDelete == DeleteResidualFiles \/ DeleteResidualFilesArgs

SpecDelete == InitDelete /\ [][NextDelete]_vars

-----------------------------------------------------------------------------
(* op_download called with any tile list, on an empty directory *)

Coords   == {-1, 0, 1, 10}
OpTiles  == {TileName(x, y) : x \in Coords, y \in Coords}
OpYears  == {2018, 2019}

\* a lookup file: two IDs for ("0_0", 2018), a row of another year between
\* them, and an ID (15) the server has no archive for
MasterLookup ==
    <<Row(11, 2018, 0, 0), Row(12, 2019, 0, 0), Row(13, 2018, 0, 0),
      Row(14, 2018, -2, 0), Row(15, 2019, 1, 1)>>

\* the rows of MasterLookup whose index is in S, in file order
SubTable(S) ==
    LET f[i \in 0..Len(MasterLookup)] ==
            IF i = 0 THEN <<>>
            ELSE IF i \in S THEN Append(f[i - 1], MasterLookup[i])
            ELSE f[i - 1]
    IN  f[Len(MasterLookup)]

LookupTables == {SubTable(S) : S \in SUBSET (1..Len(MasterLookup))}

TileLists == UNION {[1..n -> OpTiles] : n \in 0..MaxTiles}

InitOp ==
    /\ pc = "op_download"
    /\ fn = ""
    /\ caller = "user"
    /\ year \in OpYears
    /\ tiles \in TileLists
    /\ id_file \in LookupTables
    /\ data_choice = "" /\ dem_format = "" /\ keep_files = None /\ epsg = ""
    /\ shapefile = <<>>
    /\ NoLocals
    /\ disk = <<>> /\ disk_in = <<>>
    /\ NoHistory
    /\ NoFinder /\ NoRace

NextOp == OpDownload

SpecOp == InitOp /\ [][NextOp]_vars

-----------------------------------------------------------------------------
(* Vintage selection: properties *)

InRange(lo, y, hi) == lo <= y /\ y <= hi

\* C1: for every year y, vintage selection returns the label "2010-2013"
\* when 2010 <= y <= 2013, "2014-2019" when 2014 <= y <= 2019 and
\* "2020-2025" when 2020 <= y <= 2025, and the grid URL it returns names the
\* vintage of the label it returns.
C1_VintageOfYear ==
    fn \in {"dem_year_func", "DEM_Year"} =>
        /\ InRange(2010, year, 2013) => error = "none" /\ dem_year = "2010-2013"
        /\ InRange(2014, year, 2019) => error = "none" /\ dem_year = "2014-2019"
        /\ InRange(2020, year, 2025) => error = "none" /\ dem_year = "2020-2025"
        /\ error = "none" => request = UrlBase \o "Stand_" \o dem_year \o ".zip"

C1_Witness ==
    fn = "dem_year_func" /\ year = 2013 /\ dem_year = "2010-2013"
        /\ request = UrlBase \o "Stand_2010-2013.zip"

\* C2: for every year outside [2010, 2025], below as well as above, vintage
\* selection fails with the out-of-range error and returns no (URL, label).
C2_OutOfRangeFails ==
    (fn = "dem_year_func" /\ ~InRange(2010, year, 2025)) =>
        error = "ValueError" /\ request = "" /\ dem_year = ""

-----------------------------------------------------------------------------
(* op_download: properties *)

\* the anchor of a tile: each odd coordinate one less, each even one as it is
Anchor(tile) ==
    LET x == int(split(tile)[1])
        y == int(split(tile)[2])
    IN  TileName(IF x % 2 = 1 THEN x - 1 ELSE x, IF y % 2 = 1 THEN y - 1 ELSE y)

\* C3: for year <= 2018 the names of the working list after the correction
\* are exactly the anchors of the names passed in (coordinates 0 and below
\* included); for year > 2018 the working list is the list passed in.
C3_CorrectionIsAnchorSet ==
    fn = "op_download" =>
        /\ error # "ValueError"
        /\ year <= 2018 => Range(tiles) = {Anchor(t) : t \in Range(tiles_in)}
        /\ year > 2018 => tiles = tiles_in

C3_Witness ==
    /\ fn = "op_download" /\ year = 2018
    /\ tiles_in = <<TileName(-1, 1), TileName(10, 0)>>
    /\ tiles = <<TileName(10, 0), TileName(-2, 0)>>

HasRow(lookup, y, tile) ==
    \E k \in 1..Len(lookup) : lookup[k].year = y /\ lookup[k].tilename = tile

\* C5: if a tile of the corrected list has no lookup row for the year,
\* op_download fails with MissingAerialCoverage, returns no list, and has
\* issued no GET and written no file, wherever the tile stands in the list.
C5_MissingRowFailsBeforeDownload ==
    (fn = "op_download" /\ \E i \in 1..Len(tiles) : ~HasRow(id_file, year, tiles[i]))
        => /\ error = "MissingAerialCoverage"
           /\ zip_list = <<>> /\ unzip_list = <<>>
           /\ gets = 0 /\ fetched = <<>>
           /\ disk = disk_in

C5_Witness ==
    /\ fn = "op_download" /\ error = "MissingAerialCoverage"
    /\ Len(tiles) = 2 /\ HasRow(id_file, year, tiles[1])
    /\ ~HasRow(id_file, year, tiles[2])
    /\ disk = <<>>

\* the first row, in file order, of a year and a tile
FirstRow(lookup, y, tile) ==
    lookup[CHOOSE k \in 1..Len(lookup) :
               /\ lookup[k].year = y /\ lookup[k].tilename = tile
               /\ \A j \in 1..(k - 1) :
                      ~(lookup[j].year = y /\ lookup[j].tilename = tile)]

\* C6: when every tile has a match, the ID list has one entry per entry of
\* the corrected list, in its order, each the id of the first row of the
\* lookup file with the year and the tile.
C6_IdsAreFirstMatches ==
    (fn = "op_download" /\ \A i \in 1..Len(tiles) : HasRow(id_file, year, tiles[i]))
        => /\ Len(idlist) = Len(tiles)
           /\ \A i \in 1..Len(tiles) :
                  idlist[i] = FirstRow(id_file, year, tiles[i]).id

C6_Witness ==
    /\ fn = "op_download" /\ year = 2018 /\ id_file = MasterLookup
    /\ tiles_in = <<TileName(1, 1), TileName(-1, 0)>>
    /\ idlist = <<11, 14>>

\* the names of a list, and whether a list holds none of them twice
Names(l) == {l[i] : i \in 1..Len(l)}

NoDuplicates(l) == \A i, j \in 1..Len(l) : l[i] = l[j] => i = j

\* C4: in a run of geoportalth_execute with year <= 2018, where the tile
\* list is the one intersection returned, no name occurs twice in the
\* working list once op_download has corrected it.
C4_NoDuplicateAfterCorrection ==
    (fn = "op_download" /\ year <= 2018) => NoDuplicates(tiles)

\* C7: a download call fetches no archive whose path was there when the call
\* began, and over the calls made on one root directory every archive that
\* was never deleted has been fetched by at most one of them, and once
\* (fetched counts the fetches of a path since it was last deleted).
C7_FetchedOnlyIfAbsent ==
    /\ \A i \in 1..Len(runs) : runs[i].got \cap runs[i].before = {}
    /\ \A i, j \in 1..Len(runs) :
           \A path \in (runs[i].got \cap runs[j].got) \ removed : i = j
    /\ \A path \in DOMAIN fetched : fetched[path] <= 1

\* a later call needs an archive again that an earlier call fetched, finds
\* it and issues no GET
C7_Witness ==
    \E i, j \in 1..Len(runs) :
        /\ i < j
        /\ runs[j].error = "none" /\ runs[j].got = {} /\ gets = 0
        /\ \E path \in runs[i].got \ removed : path \in Names(runs[j].zips)

\* the archives of a call are still there when a later call begins
ArchivesKept(first, second) == Names(first.zips) \subseteq second.before

\* the files a call has unpacked and left on disk
Unpacked(run) == Names(run.unzips) \cap run.after

\* a call of dem_download or op_download that fetched all its archives and
\* raised nothing
FreshDownload(run) ==
    /\ run.fn \in {"dem_download", "op_download"}
    /\ run.error = "none"
    /\ Names(run.zips) = run.got

\* C8: a call of dem_download or op_download with the arguments of an
\* earlier, fresh-download call, made while the archives of that call are
\* still on disk, raises nothing, returns the two lists the earlier call
\* returned and leaves the same unpacked files on disk.
C8_CacheHitIdempotent ==
    \A i, j \in 1..Len(runs) :
        ( /\ i < j
          /\ FreshDownload(runs[i])
          /\ runs[j].fn = runs[i].fn /\ runs[j].args = runs[i].args
          /\ ArchivesKept(runs[i], runs[j]) )
            => /\ runs[j].error = "none"
               /\ runs[j].zips = runs[i].zips
               /\ runs[j].unzips = runs[i].unzips
               /\ Unpacked(runs[j]) = Unpacked(runs[i])
               /\ Unpacked(runs[j]) = Names(runs[j].unzips)

\* the second call finds the archives but not the unpacked files, which the
\* user has deleted in between
C8_Witness ==
    /\ Len(runs) = 2
    /\ FreshDownload(runs[1])
    /\ runs[2].fn = runs[1].fn /\ runs[2].args = runs[1].args
    /\ ArchivesKept(runs[1], runs[2])
    /\ Len(runs[1].zips) = 2
    /\ runs[2].got = {}
    /\ \E path \in Names(runs[1].unzips) :
           path \notin runs[2].before /\ path \in runs[2].after

\* the paths of the categories keep_files names, and those of the others
CategoryPaths(keyword) ==
    IF keyword = "zip" THEN Names(zip_list)
    ELSE IF keyword = "unzipped" THEN Names(unzip_list)
    ELSE Names(intermediates)

Categories == {"zip", "unzipped", "intermediate"}

KeptPaths(keep) ==
    IF In("all", keep) THEN UNION {CategoryPaths(k) : k \in Categories}
    ELSE UNION {CategoryPaths(k) : k \in {c \in Categories : In(c, keep)}}

DroppedPaths(keep) ==
    IF In("all", keep) THEN {}
    ELSE UNION {CategoryPaths(k) : k \in {c \in Categories : ~In(c, keep)}}

\* C9: for a keep_files list, once determine_files_to_delete and
\* delete_residual_files have run, the files gone from disk are exactly the
\* paths of the categories whose keyword is not in the list, every path of a
\* category whose keyword is in the list is on disk, and with "all" in the
\* list the files are the ones there were.
C9_DeletesExactlyNotKept ==
    (fn = "delete_residual_files" /\ ~keep_files.isNone)
        => /\ (DOMAIN disk_in) \ (DOMAIN disk) = DroppedPaths(keep_files.val)
           /\ removed = DroppedPaths(keep_files.val)
           /\ KeptPaths(keep_files.val) \subseteq DOMAIN disk
           /\ In("all", keep_files.val) => disk = disk_in

C9_Witness ==
    /\ fn = "delete_residual_files"
    /\ keep_files = Some(<<"zip">>)
    /\ Len(zip_list) = 2 /\ Names(zip_list) \subseteq DOMAIN disk
    /\ removed = Names(unzip_list) \cup Names(intermediates)
    /\ Cardinality(removed) = 6

\* C10: with keep_files = None the cleanup raises nothing, and once it has
\* run no path of the zip list, the unzip list or the intermediates is on
\* disk.
C10_NoneDeletesEverything ==
    keep_files.isNone =>
        /\ fn = "determine_files_to_delete" => error = "none"
        /\ fn = "delete_residual_files" =>
               /\ error = "none"
               /\ (Names(zip_list) \cup Names(unzip_list)
                       \cup Names(intermediates)) \cap DOMAIN disk = {}

\* the two products of a run
clipped_dem == Join(dem_dir, out_name \o "_" \o dem_format \o "_clip.tif")
clipped_op  == Join(op_dir, out_name \o "OP_clip.tif")

\* C11: a run with data_choice = "both" that ends without an exception has
\* written the clipped DEM raster and the clipped OP raster.
C11_BothProducesBothRasters ==
    (data_choice = "both" /\ pc = "done")
        => exists(disk, clipped_dem) /\ exists(disk, clipped_op)

\* the AOI shares no area with any cell of the grid
NoCell(aoi) ==
    \A i \in 1..Len(aoi), j \in 1..Len(grid) : aoi[i] \cap grid[j].geometry = {}

\* the files tile_grid_download writes
GridFiles ==
    UNION {{grid_file(v), grid_path(v)} : v \in Vintages}

\* C12: in a run whose AOI intersects no grid cell, intersection raises
\* AreaOutOfBounds, the run ends there, and no stage after it has run: the
\* only call that issued a GET is tile_grid_download and the only files on
\* disk are those of the grid overview.
C12_NoCoverageBeforeDownload ==
    NoCell(shapefile) =>
        /\ fn \in {"", "geoportalth_execute", "dem_year_func",
                   "tile_grid_download", "intersection"}
        /\ fn = "intersection" => (error = "AreaOutOfBounds" /\ pc = "failed")
        /\ \A i \in 1..Len(runs) : runs[i].fn = "tile_grid_download"
        /\ DOMAIN disk \subseteq GridFiles

C12_Witness ==
    /\ NoCell(shapefile)
    /\ fn = "intersection" /\ error = "AreaOutOfBounds" /\ pc = "failed"
    /\ Len(runs) = 1 /\ runs[1].got = {grid_file("2020-2025")}
    /\ data_choice = "op"

\* C13: a run with another epsg than "EPSG: 25832", or with dem_format
\* "las", ends with FunctionalityNotImplemented raised by
\* geoportalth_execute itself: no stage was called, no file is on disk and
\* no GET was issued.
C13_UnsupportedRejectedFirst ==
    ((epsg # "EPSG: 25832" \/ dem_format = "las") /\ pc # "geoportalth_execute")
        => /\ pc = "failed" /\ error = "FunctionalityNotImplemented"
           /\ fn = "geoportalth_execute"
           /\ disk = <<>> /\ gets = 0 /\ fetched = <<>> /\ runs = <<>>

C13_Witness ==
    /\ epsg = "EPSG: 25832" /\ dem_format = "las" /\ data_choice = "op"
    /\ pc = "failed" /\ error = "FunctionalityNotImplemented"
    /\ disk = <<>>

\* C14: the list intersection returns holds no tile name twice.
C14_IntersectionUnique ==
    (fn = "intersection" /\ error = "none") => NoDuplicates(tiles)

\* the IDs of the rows of the lookup file, in file order (line 1 is the
\* header)
RowIds == [k \in 1..(Len(id_lines) - 1) |-> int(id_lines[k + 1][1])]

\* the server answers the request for the ID with an orthophoto
Positive(index) == ~op_tilename_finder(index).isNone

\* the indices of the batch at hand
BatchRange == batch..(batch + safe_step - 1)

\* C15: while the requests of a batch are out, the file holds a row for
\* every positive ID of the batches before it and no row of the batch
\* itself, and no request of another batch is out or answered; while rows
\* are written, every request of the batch has been answered.
C15_BatchesInOrder ==
    /\ pc = "Parallel" =>
           /\ \A k \in 1..Len(RowIds) : RowIds[k] < batch
           /\ \A index \in start..(batch - 1) :
                  Positive(index) => In(index, RowIds)
           /\ running \cup DOMAIN names_list \subseteq BatchRange
    /\ pc = "write" =>
           /\ running = {}
           /\ DOMAIN names_list = BatchRange

C15_Witness ==
    /\ pc = "Parallel" /\ ~interrupted
    /\ n_jobs = 3 /\ safe_step = 3 /\ batch = start + safe_step
    /\ Cardinality(running) = 2 /\ Cardinality(DOMAIN names_list) = 1
    /\ Len(RowIds) = 2

\* C16: when start_after_interruption has run to its end after an
\* interruption of op_tilelist_creator(start, end), the file holds one row
\* for each ID of start..end the server answers positively, and none for
\* the others.
C16_ResumeCompletesList ==
    (interrupted /\ pc = "done") =>
        \A index \in first_start..last_id :
            Cardinality({k \in 1..Len(RowIds) : RowIds[k] = index})
                = IF Positive(index) THEN 1 ELSE 0

\* C17: no request is sent for an ID below start or above end.
C17_RequestsWithinRange ==
    \A index \in DOMAIN requested : first_start <= index /\ index <= last_id

\* C18: for every AOI, the cells the legacy Intersection selects (those
\* that overlap a polygon of the AOI) are the cells intersection selects
\* (those of the overlay), whichever of the two is called.
C18_OverlapsEqualsOverlay ==
    /\ fn = "intersection" =>
           Names(tiles) = Names(Intersection_legacy(disk, dem_year, shapefile).tiles)
    /\ fn = "Intersection" =>
           Names(tiles) = Names(intersection(disk, dem_year, shapefile).tiles)

\* C19: an invocation that finds the archive path present issues no GET
\* and opens what the path holds at that moment, which is no zip archive
\* while another invocation is between its open and the end of its write:
\* the state of C19_Witness, in which that has happened, is reachable.
C19_HitReadsWhatIsThere ==
    \A p \in DOMAIN rpc :
        /\ rhit[p] => rgets[p] = 0
        /\ rerr[p] # "none" => rerr[p] = "BadZipFile" /\ rpc[p] = "failed"

\* the first invocation has opened the archive and not yet written it; the
\* second found it present, issued no GET and failed to unpack it
C19_Witness ==
    /\ DOMAIN rpc = Racers
    /\ rpc[1] = "write" /\ ~rhit[1] /\ rgets[1] = 1
    /\ ~disk[race_path].ok
    /\ rhit[2] /\ rgets[2] = 0
    /\ rpc[2] = "failed" /\ rerr[2] = "BadZipFile"

\* the paths of a nested input, in the order the function reaches them
RECURSIVE Flatten(_)
Flatten(nodes) ==
    IF Len(nodes) = 0 THEN <<>>
    ELSE (IF Head(nodes).tag = "str" THEN <<Head(nodes).path>>
          ELSE Flatten(Head(nodes).items)) \o Flatten(Tail(nodes))

\* the paths that are no file when the function reaches them: not on disk,
\* or reached before
NotAFile(paths) ==
    {paths[i] : i \in {j \in 1..Len(paths) :
                          \/ ~exists(disk_in, paths[j])
                          \/ \E k \in 1..(j - 1) : paths[k] = paths[j]}}

\* C20: when a path of the (nested) input is no existing file, a directory
\* entry or a path listed twice, delete_residual_files raises nothing,
\* warns about exactly the paths that were no file at their turn, and
\* deletes every file of the input.
C20_MissingPathOnlyWarns ==
    (fn = "delete_residual_files" /\ NotAFile(Flatten(delete_list)) # {})
        => /\ error = "none" /\ pc = "done"
           /\ warned = NotAFile(Flatten(delete_list))
           /\ DOMAIN disk = (DOMAIN disk_in) \ Names(Flatten(delete_list))
           /\ removed = (DOMAIN disk_in) \cap Names(Flatten(delete_list))

C20_Witness ==
    /\ fn = "delete_residual_files"
    /\ delete_list = <<ListNode(<<PathNode(FileA), PathNode(DirEntry)>>),
                       ListNode(<<PathNode(FileA), PathNode(FileB)>>)>>
    /\ warned = {FileA, DirEntry}
    /\ disk = <<>>

-----------------------------------------------------------------------------
(* op_download: the correction as a pass over the list *)

\* C21: for year <= 2018 and every tile list passed in, the pass of the
\* correction raises nothing and leaves a list whose names all have two
\* even coordinates, and the same pass over that list gives that list back:
\* no name removed, none added, the order kept.
C21_CorrectionFixedPoint ==
    (fn = "op_download" /\ year <= 2018) =>
        /\ error # "ValueError"
        /\ \A i \in 1..Len(tiles) : IsEven(tiles[i])
        /\ correct(tiles, year) = [error |-> "none", list |-> tiles]

C21_Witness ==
    /\ fn = "op_download" /\ year = 2018
    /\ tiles_in = <<TileName(1, 1), TileName(-1, 0)>>
    /\ tiles = <<TileName(0, 0), TileName(-2, 0)>>
    /\ correct(tiles, year).list = tiles

\* C26: when op_download has returned or raised, the list its caller
\* passed in holds the names it held before the call, in the same order.
C26_CallerListUnchanged ==
    fn = "op_download" => tiles = tiles_in

-----------------------------------------------------------------------------
(* geoportalth_execute: the order of the stages *)

\* the place of a stage in the run (pc names the stage to run next)
Stage(p) ==
    CASE p = "geoportalth_execute" -> 0
      [] p = "dem_year_func" -> 1
      [] p = "tile_grid_download" -> 2
      [] p = "intersection" -> 3
      [] p \in {"dem_download", "op_download"} -> 4
      [] p = "merging_tiles" -> 5
      [] p = "clip_rasters" -> 6
      [] p = "determine_files_to_delete" -> 7
      [] p = "delete_residual_files" -> 8
      [] p = "done" -> 9
      [] OTHER -> -1

\* a step of the run: the stage after the one that returned, or the end of
\* the run if it raised; files are removed by delete_residual_files only,
\* which runs once the clipped raster of the branch is written
StageStep ==
    /\ pc' = "failed" \/ Stage(pc') = Stage(pc) + 1
    /\ (pc' = "failed") = (error' # "none")
    /\ pc # "delete_residual_files" =>
           /\ DOMAIN disk \subseteq DOMAIN disk'
           /\ removed' = removed
    /\ pc = "delete_residual_files" =>
           /\ fn = "determine_files_to_delete"
           /\ exists(disk, clip_outp(data_choice, dem_format))

\* C22: the stages of geoportalth_execute run in the order vintage
\* selection, grid download, intersection, download, merge, clip, cleanup,
\* each after the one before it has returned; an exception ends the run;
\* delete_residual_files runs only when the clipped raster of the branch is
\* on disk; and a run that ended in a stage before it has removed no file
\* and has every archive it fetched on disk.
C22_StagesInOrder ==
    /\ [][StageStep]_vars
    /\ []((pc = "failed" /\ fn # "delete_residual_files") =>
              /\ removed = {}
              /\ \A q \in DOMAIN fetched : exists(disk, q))

C22_Witness ==
    /\ pc = "failed" /\ fn = "dem_download" /\ error = "ConnectionError"
    /\ Len(tiles) = 2
    /\ exists(disk, current_dem(tiles[1], dem_format, dem_year))
    /\ ~exists(disk, current_dem(tiles[2], dem_format, dem_year))
    /\ removed = {}

-----------------------------------------------------------------------------
(* geoportalth_execute: the DEM formats *)

\* the exceptions of a run that have nothing to do with the format: of the
\* year, of the AOI and of the connection
Unrelated == {"ValueError", "AreaOutOfBounds", "ConnectionError"}

\* C23: a DEM run with a dem_format other than dgm and dom, whose year, AOI
\* and connection raise nothing, ends with FunctionalityNotImplemented and
\* with no other exception, and has unpacked, merged and clipped nothing.
C23_OtherFormatsRejected ==
    (/\ caller = "geoportalth_execute" /\ pc \in {"done", "failed"}
     /\ data_choice \in {"dem", "both"} /\ dem_format \notin {"dgm", "dom"}
     /\ error \notin Unrelated)
        => /\ error = "FunctionalityNotImplemented"
           /\ unzip_list = <<>> /\ intermediates = <<>>
           /\ ~exists(disk, clip_outp(data_choice, dem_format))

-----------------------------------------------------------------------------
(* dem_download called by the user, one call after the other, on one       *)
(* dem_dir, for any tiles, format and vintage                              *)

MaxCalls == 2

PathTiles   == {<<TileName(0, 0)>>, <<TileName(0, 0), TileName(1, 0)>>}
PathFormats == {"dgm", "dom", "las"}

UserDemCall ==
    /\ Idle
    /\ Len(runs) < MaxCalls
    /\ pc' = "dem_download"
    /\ caller' = "user"
    /\ error' = "none"
    /\ dem_year' \in Vintages
    /\ dem_format' \in PathFormats
    /\ tiles' \in PathTiles
    /\ request' = ""
    /\ tiles_in' = <<>> /\ idlist' = <<>>
    /\ zip_list' = <<>> /\ unzip_list' = <<>>
    /\ UNCHANGED <<fn, year, data_choice, keep_files, epsg, shapefile, id_file,
                   intermediates, delete_list, env>>
    /\ UNCHANGED others

InitPath == InitCache

NextPath ==
    \/ UserDemCall
    \/ DemDownload

SpecPath == InitPath /\ [][NextPath]_vars

\* the (tile, format, vintage) triples a call of dem_download was made for
Triples(run) ==
    {<<run.args[1][k], run.args[2], run.args[3]>> :
        k \in 1..Len(run.args[1])}

\* C24: two calls of dem_download build the same archive path only for the
\* same tile, format and vintage; a call that returned found or wrote, at
\* the path of each of its tiles, the archive of its own format and vintage
\* and no other; and a call for a format without URL never finds a path to
\* unpack among the archives of the other formats.
C24_ArchivePathInjective ==
    /\ \A i, j \in 1..Len(runs) :
           \A a \in Triples(runs[i]), b \in Triples(runs[j]) :
               current_dem(a[1], a[2], a[3]) = current_dem(b[1], b[2], b[3])
                   => a = b
    /\ (fn = "dem_download" /\ pc = "done") =>
           \A k \in 1..Len(tiles) :
               disk[current_dem(tiles[k], dem_format, dem_year)]
                   = DemArchive(dem_format, tiles[k], dem_year)
    /\ (fn = "dem_download" /\ pc \in {"done", "failed"}
            /\ dem_format \notin DemFormats) =>
           error = "UnboundLocalError" /\ unzip_list = <<>>

C24_Witness ==
    /\ Len(runs) = 2 /\ pc = "done"
    /\ runs[1].args = <<<<TileName(0, 0)>>, "dgm", "2014-2019">>
    /\ runs[2].args = <<<<TileName(0, 0), TileName(1, 0)>>, "dom", "2014-2019">>
    /\ runs[1].error = "none"
    /\ runs[2].got = {current_dem(TileName(0, 0), "dom", "2014-2019"),
                      current_dem(TileName(1, 0), "dom", "2014-2019")}
    /\ exists(disk, current_dem(TileName(0, 0), "dgm", "2014-2019"))

-----------------------------------------------------------------------------
(* op_tilelist_creator run to its end: no interruption, every request is   *)
(* answered and the calling process goes on whenever it can                *)

NextCreator ==
    \/ CreatorEnter
    \/ Dispatch
    \/ Answer
    \/ ParallelReturns
    \/ WriteEntry
    \/ NextBatch

Fairness ==
    /\ WF_vars(CreatorEnter)
    /\ WF_vars(Dispatch)
    /\ WF_vars(Answer)
    /\ WF_vars(ParallelReturns)
    /\ WF_vars(WriteEntry)
    /\ WF_vars(NextBatch)

SpecCreator == InitFinder /\ [][NextCreator]_vars /\ Fairness

\* every ID of start..end has been requested once
EachOnce == \A index \in first_start..last_id : Count(requested, index) = 1

\* C25: a run of op_tilelist_creator(start, end) with start <= end and
\* safe_step >= 1 that is not interrupted and whose requests are all
\* answered comes to its end, and at its end every ID of start..end has
\* been requested exactly once; at no time has an ID been requested twice.
C25_RunsToEnd ==
    /\ <>[](pc = "done" /\ fn = "op_tilelist_creator" /\ EachOnce)
    /\ [](\A index \in DOMAIN requested : requested[index] = 1)

C25_Witness ==
    /\ pc = "done" /\ fn = "op_tilelist_creator"
    /\ first_start = 1 /\ last_id = 6 /\ safe_step = 3 /\ n_jobs = 2
    /\ batch = 7
    /\ EachOnce

====
